---- MODULE Spec2Model ----
(***************************************************************************)
(* The refresh orchestrator of cursor-enterprise-stats (src/extension.ts): *)
(* the busy flag, the three caches, the fast-retry window, the interval    *)
(* timers and the asynchronous refreshStats invocations, driven by timer   *)
(* ticks, the manual command, window-focus events, configuration changes   *)
(* and the delayed initial fetch.                                          *)
(*                                                                         *)
(* A nullable JavaScript value is a sequence of length at most one:        *)
(* Null is <<>> and Some(v) is <<v>>.                                      *)
(***************************************************************************)
EXTENDS Integers, Sequences, FiniteSets, TLC

VARIABLES
  now,                    \* Date.now(), in milliseconds
  refreshInterval,        \* the module's timer handle (Null = undefined)
  timers,                 \* the interval timers that are live in the runtime
  initialFetch,           \* the pending setTimeout of activate() (Null once fired)
  isRefreshing,           \* the busy flag
  cachedUserInfo,
  cachedUsageData,
  cachedLeaderboardData,
  fastRetryStartTime,     \* Null = retry mode Normal, Some(t) = FastRetry since t
  calls,                  \* the refreshStats invocations past the guard, per slot
  config,                 \* the cursorEnterpriseStats settings
  windowFocused,          \* e.focused of the last window-state event
  skipped,                \* the last step called refreshStats() with the flag set
  lastCycle,              \* the refresh cycle the last step finished, if any
  database,               \* what getCursorTokenFromDB finds on this machine, where
                          \* the token reader is followed (Null where it is not)
  extraction,             \* what the last call of getCursorTokenFromDB came to
  deactivated,            \* deactivate() has run
  outstanding,            \* the HTTP requests still pending of refreshes that
                          \* have ended, where they are counted (Null where not)
  arguments,              \* a call of a function of services/api.ts, where
  returned,               \* these are followed, and what it returned
  windows                 \* the fast-retry windows entered so far, up to
                          \* MaxWindows, where they are counted (Null where not)

vars == <<now, refreshInterval, timers, initialFetch, isRefreshing, cachedUserInfo,
          cachedUsageData, cachedLeaderboardData, fastRetryStartTime, calls, config,
          windowFocused, skipped, lastCycle, database, extraction, deactivated,
          outstanding, arguments, returned, windows>>

----------------------------------------------------------------------------
(* Bounds of the model *)

ActivationTime == 1
MaxAdvances == 2
MaxCalls == 2
MaxTimers == 2
MaxOutstanding == 3
MaxWindows == 2

----------------------------------------------------------------------------
(* Program constants *)

REFRESH_INTERVAL_MS == 60 * 1000
FAST_RETRY_INTERVAL_MS == 1000
FAST_RETRY_DURATION_MS == 60 * 1000
INITIAL_FETCH_DELAY_MS == 500
\* 1.5 * 1024 * 1024 * 1024 bytes (services/database.ts)
LARGE_FILE_THRESHOLD_BYTES == 3 * 512 * 1024 * 1024

NotSignedInMessage == "Not signed in to Cursor"

Null == <<>>
Some(v) == <<v>>
Truthy(o) == o # Null
\* a nullable number: null and 0 are falsy
TruthyNumber(o) == o # Null /\ o[1] # 0

Min(S) == CHOOSE x \in S : \A y \in S : x <= y

Slots == 1 .. MaxCalls
TimerIds == 1 .. MaxTimers

----------------------------------------------------------------------------
(* Inputs *)

\* Time passes in steps of half the fast-retry window: a window that starts at
\* the initial fetch is exactly FAST_RETRY_DURATION_MS old two steps later.
HalfWindow == FAST_RETRY_DURATION_MS \div 2
Delays == {HalfWindow}
MaxTime == ActivationTime + INITIAL_FETCH_DELAY_MS + MaxAdvances * HalfWindow

Credentials == {"user_1%3A%3Ah.p.s"}

\* /api/dashboard/get-me responses
UserInfos ==
  { [email |-> "a@x", isEnterpriseUser |-> TRUE,  teamId |-> 7],
    [email |-> "a@x", isEnterpriseUser |-> TRUE,  teamId |-> 0],
    [email |-> "a@x", isEnterpriseUser |-> FALSE, teamId |-> 7] }

\* /api/usage-summary responses; "malformed" has no individualUsage object
UsageResponses == {"usageA", "malformed"}

\* messages of the errors axios throws
FetchErrorMessages == {"Network Error", "Request failed with status code 401"}
TypeErrorMessage == "Cannot read properties of undefined (reading 'overall')"

\* the stored access tokens: header, payload and signature joined by dots
Header == "eyJhbGciOiJIUzI1NiJ9"
Signature == "c2ln"
Jwt(payload) == <<Header, ".">> \o payload \o <<".", Signature>>

\* base64url payload segments; the fourth holds the url-safe character _
PayloadSegments ==
  { <<"eyJzdWIiOiJhfHUifQ">>,              \* {"sub":"a|u"}
    <<"eyJzdWIiOiJhfHV8YiJ9">>,            \* {"sub":"a|u|b"}
    <<"eyJzdWIiOiJ8dSJ9">>,                \* {"sub":"|u"}
    <<"eyJzdWIiOiJhfHU", "_", "In0">>,     \* {"sub":"a|u?"}
    <<"eyJzdWIiOiJhIn0">>,                 \* {"sub":"a"}
    <<"eyJzdWIiOiJhfCJ9">>,                \* {"sub":"a|"}
    <<"eyJzdWIiOiJhfHxiIn0">>,             \* {"sub":"a||b"}
    <<"eyJzdWIiOiIifQ">>,                  \* {"sub":""}
    <<"e30">>,                             \* {}
    <<"bnVsbA">>,                          \* null
    <<"eyJzdWIiOg">>,                      \* {"sub":
    <<"AAAA">> }                           \* three zero bytes

RawTokens ==
  {Jwt(p) : p \in PayloadSegments}
    \cup { <<Header, ".", "eyJzdWIiOiJhfHUifQ">>,                       \* two segments
           Jwt(<<"eyJzdWIiOiJhfHUifQ">>) \o <<".", "x">>,               \* four segments
           <<"opaque">>,                                                \* one segment
           <<>> }                                                       \* the empty string

FileSizes == {LARGE_FILE_THRESHOLD_BYTES - 1, LARGE_FILE_THRESHOLD_BYTES,
              LARGE_FILE_THRESHOLD_BYTES + 1}

\* what the token reader can find: the user directory the context module
\* holds (undefined until initializeContext() has run), the customDatabasePath
\* setting, the database file at the resolved path (whether it exists, its
\* size, the value of its token row) and whether the in-memory query and the
\* sqlite3 command work on it. Neither works on a missing file.
Databases ==
  { db \in [ userDirPath : {Null, Some(<<"/home/u/.config/Cursor">>)},
             customPath : {Null, Some(<<" ">>), Some(<<"/data/state.vscdb">>)},
             exists : BOOLEAN,
             size : FileSizes,
             stored : {Null} \cup {Some(token) : token \in RawTokens},
             sqlJs : {"ok", "throws"},
             cli : {"ok", "throws"} ] :
      db.exists \/ ( /\ db.size = LARGE_FILE_THRESHOLD_BYTES - 1
                     /\ db.stored = Null
                     /\ db.sqlJs = "throws" /\ db.cli = "throws" ) }

LeaderboardDays == {7, 30}
ConfigKeys == {"statusBarRankDisplay", "enableLeaderboard", "leaderboardDateRange"}

----------------------------------------------------------------------------
(* The token reader (services/database.ts). A string is a sequence of      *)
(* symbols: single characters, or runs of characters that no operation     *)
(* takes apart. A function that can throw yields Return(v) or Throw(m).    *)

ContextError == "Context not initialized. Call initializeContext() first."

Return(v) == [kind |-> "return", value |-> v]
Throw(m) == [kind |-> "throw", value |-> m]

\* a nullable string: undefined, null and "" are falsy
TruthyString(o) == o # Null /\ o[1] # <<>>

Whitespace == {" ", "\n"}

\* String.prototype.trim
RECURSIVE Trim(_)
Trim(str) ==
  IF str = <<>> THEN str
  ELSE IF Head(str) \in Whitespace THEN Trim(Tail(str))
  ELSE IF str[Len(str)] \in Whitespace THEN Trim(SubSeq(str, 1, Len(str) - 1))
  ELSE str

\* String.prototype.split with a one-character separator
RECURSIVE Split(_, _)
Split(str, sep) ==
  IF \A i \in DOMAIN str : str[i] # sep THEN <<str>>
  ELSE LET i == Min({j \in DOMAIN str : str[j] = sep})
       IN <<SubSeq(str, 1, i - 1)>> \o Split(SubSeq(str, i + 1, Len(str)), sep)

\* str.replace(/from/g, to)
ReplaceAll(str, from, to) ==
  [i \in DOMAIN str |-> IF str[i] = from THEN to ELSE str[i]]

\* Buffer.from(base64, 'base64').toString('utf8'): it never throws, and text
\* that is not the encoding of a sample payload decodes to bytes that are no JSON
Base64Decode(base64) ==
  CASE base64 = <<"eyJzdWIiOiJhfHUifQ">> -> "{\"sub\":\"a|u\"}"
    [] base64 = <<"eyJzdWIiOiJhfHV8YiJ9">> -> "{\"sub\":\"a|u|b\"}"
    [] base64 = <<"eyJzdWIiOiJ8dSJ9">> -> "{\"sub\":\"|u\"}"
    [] base64 = <<"eyJzdWIiOiJhfHU", "/", "In0">> -> "{\"sub\":\"a|u?\"}"
    [] base64 = <<"eyJzdWIiOiJhIn0">> -> "{\"sub\":\"a\"}"
    [] base64 = <<"eyJzdWIiOiJhfCJ9">> -> "{\"sub\":\"a|\"}"
    [] base64 = <<"eyJzdWIiOiJhfHxiIn0">> -> "{\"sub\":\"a||b\"}"
    [] base64 = <<"eyJzdWIiOiIifQ">> -> "{\"sub\":\"\"}"
    [] base64 = <<"e30">> -> "{}"
    [] base64 = <<"bnVsbA">> -> "null"
    [] base64 = <<"eyJzdWIiOg">> -> "{\"sub\":"
    [] OTHER -> "?"

\* a parsed payload object with the claim sub
Payload(sub) == Some([sub |-> sub])

\* JSON.parse; the JSON value null is Null
JSONParse(text) ==
  CASE text = "{\"sub\":\"a|u\"}" -> Return(Payload(Some(<<"a", "|", "u">>)))
    [] text = "{\"sub\":\"a|u|b\"}" -> Return(Payload(Some(<<"a", "|", "u", "|", "b">>)))
    [] text = "{\"sub\":\"|u\"}" -> Return(Payload(Some(<<"|", "u">>)))
    [] text = "{\"sub\":\"a|u?\"}" -> Return(Payload(Some(<<"a", "|", "u", "?">>)))
    [] text = "{\"sub\":\"a\"}" -> Return(Payload(Some(<<"a">>)))
    [] text = "{\"sub\":\"a|\"}" -> Return(Payload(Some(<<"a", "|">>)))
    [] text = "{\"sub\":\"a||b\"}" -> Return(Payload(Some(<<"a", "|", "|", "b">>)))
    [] text = "{\"sub\":\"\"}" -> Return(Payload(Some(<<>>)))
    [] text = "{}" -> Return(Payload(Null))
    [] text = "null" -> Return(Null)
    [] OTHER -> Throw("Unexpected token in JSON")

\* decodeJwtPayload without the test of the number of parts
DecodeJwtPayloadAnyParts(token) ==
  LET parts == Split(token, ".")
  IN IF Len(parts) < 2 THEN Null
     ELSE LET base64 == ReplaceAll(ReplaceAll(parts[2], "-", "+"), "_", "/")
              parsed == JSONParse(Base64Decode(base64))
          IN IF parsed.kind = "throw" THEN Null ELSE parsed.value

\* decodeJwtPayload: the parsed payload, or Null for undefined
DecodeJwtPayload(token) ==
  LET parts == Split(token, ".")
  IN IF Len(parts) # 3 THEN Null
     ELSE LET base64 == ReplaceAll(ReplaceAll(parts[2], "-", "+"), "_", "/")
              parsed == JSONParse(Base64Decode(base64))
          IN IF parsed.kind = "throw" THEN Null ELSE parsed.value

\* processJwtToken taking the user id from the first part of sub
ProcessJwtTokenFirstPart(token) ==
  LET payload == DecodeJwtPayload(token)
  IN IF payload = Null \/ ~TruthyString(payload[1].sub) THEN Null
     ELSE LET subParts == Split(payload[1].sub[1], "|")
          IN IF Len(subParts) < 2 \/ subParts[2] = <<>> THEN Null
             ELSE Some(subParts[1] \o <<"%3A%3A">> \o token)

\* processJwtToken: the session token, or Null for undefined
ProcessJwtToken(token) ==
  LET payload == DecodeJwtPayload(token)
  IN IF payload = Null \/ ~TruthyString(payload[1].sub) THEN Null
     ELSE LET subParts == Split(payload[1].sub[1], "|")
          IN IF Len(subParts) < 2 \/ subParts[2] = <<>> THEN Null
             ELSE Some(subParts[2] \o <<"%3A%3A">> \o token)

\* getCursorDBPath: the configured path, or the default one under the user
\* directory, which needs the context
GetCursorDBPath(db) ==
  IF db.customPath # Null /\ Trim(db.customPath[1]) # <<>> THEN Return(db.customPath[1])
  ELSE IF ~TruthyString(db.userDirPath) THEN Throw(ContextError)
  ELSE Return(db.userDirPath[1] \o <<"/User/globalStorage/state.vscdb">>)

\* what sqlite3 prints for the query: the value of the row and a newline
CliOutput(db) == IF db.stored = Null THEN <<>> ELSE db.stored[1] \o <<"\n">>

\* queryTokenWithCLI: it catches its own errors
QueryTokenWithCLI(db) ==
  IF db.cli = "throws" THEN Null
  ELSE LET token == Trim(CliOutput(db))
       IN IF token = <<>> THEN Null ELSE Some(token)

\* queryTokenWithSqlJs: it throws when the file cannot be read or opened
QueryTokenWithSqlJs(db) ==
  IF db.sqlJs = "throws" THEN Throw("file is not a database")
  ELSE Return(db.stored)

\* extractRawToken with >= for > in the test of the size
ExtractRawTokenAtThreshold(db, fileSize) ==
  IF fileSize >= LARGE_FILE_THRESHOLD_BYTES
  THEN [token |-> QueryTokenWithCLI(db), tried |-> <<"CLI">>]
  ELSE LET queried == QueryTokenWithSqlJs(db)
       IN IF queried.kind = "throw"
          THEN [token |-> QueryTokenWithCLI(db), tried |-> <<"sqlJs", "CLI">>]
          ELSE [token |-> queried.value, tried |-> <<"sqlJs">>]

\* extractRawToken asking the CLI also when the in-memory query finds no row
ExtractRawTokenRetriesNoRow(db, fileSize) ==
  IF fileSize > LARGE_FILE_THRESHOLD_BYTES
  THEN [token |-> QueryTokenWithCLI(db), tried |-> <<"CLI">>]
  ELSE LET queried == QueryTokenWithSqlJs(db)
       IN IF queried.kind = "throw" \/ queried.value = Null
          THEN [token |-> QueryTokenWithCLI(db), tried |-> <<"sqlJs", "CLI">>]
          ELSE [token |-> queried.value, tried |-> <<"sqlJs">>]

\* extractRawToken: the raw token and the query strategies it tried, in order
ExtractRawToken(db, fileSize) ==
  IF fileSize > LARGE_FILE_THRESHOLD_BYTES
  THEN [token |-> QueryTokenWithCLI(db), tried |-> <<"CLI">>]
  ELSE LET queried == QueryTokenWithSqlJs(db)
       IN IF queried.kind = "throw"
          THEN [token |-> QueryTokenWithCLI(db), tried |-> <<"sqlJs", "CLI">>]
          ELSE [token |-> queried.value, tried |-> <<"sqlJs">>]

\* what a call of getCursorTokenFromDB comes to: the value it resolves with,
\* the error it rejects with, the error its catch block swallowed, the query
\* strategies it tried and the raw token they gave
Read(result, raised, caught, tried, raw) ==
  [result |-> result, raised |-> raised, caught |-> caught, tried |-> tried, raw |-> raw]

\* getCursorTokenFromDB without the test that the file exists
GetCursorTokenFromDBQueriesMissingFile(db) ==
  LET dbPath == GetCursorDBPath(db)
  IN IF dbPath.kind = "throw" THEN Read(Null, Null, Some(dbPath.value), <<>>, Null)
     ELSE LET extracted == ExtractRawToken(db, db.size)
          IN IF ~TruthyString(extracted.token)
             THEN Read(Null, Null, Null, extracted.tried, extracted.token)
             ELSE Read(ProcessJwtToken(extracted.token[1]), Null, Null,
                       extracted.tried, extracted.token)

\* getCursorTokenFromDB; its catch block turns every error into undefined
GetCursorTokenFromDB(db) ==
  LET dbPath == GetCursorDBPath(db)
  IN IF dbPath.kind = "throw" THEN Read(Null, Null, Some(dbPath.value), <<>>, Null)
     ELSE IF ~db.exists THEN Read(Null, Null, Null, <<>>, Null)
     ELSE LET extracted == ExtractRawToken(db, db.size)
          IN IF ~TruthyString(extracted.token)
             THEN Read(Null, Null, Null, extracted.tried, extracted.token)
             ELSE Read(ProcessJwtToken(extracted.token[1]), Null, Null,
                       extracted.tried, extracted.token)

----------------------------------------------------------------------------
(* The leaderboard and contribution functions of services/api.ts           *)

\* the e-mail addresses of the team; the caller's is any one of them
Emails == {"a@x", "b@x"}

Entry(email, rank) == [email |-> email, rank |-> rank]

\* one section of a leaderboard response: a page of entries and the number of
\* users ranked (ILeaderboardResponse, lines 47-56); the last has no data array
Sections ==
  { [data |-> Some(<<Entry("b@x", 1)>>), total_users |-> 1],
    [data |-> Some(<<Entry("b@x", 1), Entry("a@x", 2)>>), total_users |-> 12],
    [data |-> Some(<<Entry("a@x", 1), Entry("a@x", 2)>>), total_users |-> 2],
    [data |-> Null, total_users |-> 3] }

\* the responses of /api/v2/analytics/team/leaderboard: each section is optional
LeaderboardResponses ==
  [composer_leaderboard : {Null} \cup {Some(x) : x \in Sections},
   tab_leaderboard : {Null} \cup {Some(x) : x \in Sections}]

\* what one fetchLeaderboardWithSort comes to: it returns response.data, or
\* rethrows the error of axios (lines 240-286)
LeaderboardOutcomes ==
  {Return(r) : r \in LeaderboardResponses} \cup {Throw("Network Error")}

\* entries.find((entry) => entry.email === email): the first match, or undefined
Find(entries, email) ==
  LET hits == {i \in 1..Len(entries) : entries[i].email = email}
  IN IF hits = {} THEN Null ELSE Some(entries[Min(hits)])

FindComposerEntry(data, email) ==
  IF data.composer_leaderboard = Null THEN Null
  ELSE IF data.composer_leaderboard[1].data = Null THEN Null
  ELSE Find(data.composer_leaderboard[1].data[1], email)

FindTabEntryInComposer(data, email) == FindComposerEntry(data, email)

FindTabEntry(data, email) ==
  IF data.tab_leaderboard = Null THEN Null
  ELSE IF data.tab_leaderboard[1].data = Null THEN Null
  ELSE Find(data.tab_leaderboard[1].data[1], email)

\* section?.total_users ?? 0
TotalUsers(section) == IF section = Null THEN 0 ELSE section[1].total_users

\* fetchAllLeaderboards, given what its three requests come to, in the order of
\* the array of Promise.all: composer_lines, composer_accepts, tab_accepts
FetchAllLeaderboards(outcomes, userEmail) ==
  LET failed == {i \in 1..3 : outcomes[i].kind = "throw"}
      agentLinesData == outcomes[1].value
      acceptedDiffsData == outcomes[2].value
      tabCompletionsData == outcomes[3].value
  IN IF failed # {} THEN Throw(outcomes[Min(failed)].value)
     ELSE Return(
       [agentLines |->
          [userEntry |-> FindComposerEntry(agentLinesData, userEmail),
           totalUsers |-> TotalUsers(agentLinesData.composer_leaderboard)],
        acceptedDiffs |->
          [userEntry |-> FindComposerEntry(acceptedDiffsData, userEmail),
           totalUsers |-> TotalUsers(acceptedDiffsData.composer_leaderboard)],
        tabCompletions |->
          [userEntry |-> FindTabEntry(tabCompletionsData, userEmail),
           totalUsers |-> TotalUsers(tabCompletionsData.tab_leaderboard)]])

\* A JavaScript number that integer cents, one division and one product give:
\* a fraction n/d in lowest terms, or what a division by zero yields
Abs(n) == IF n < 0 THEN -n ELSE n

RECURSIVE Gcd(_, _)
Gcd(a, b) == IF b = 0 THEN a ELSE Gcd(b, a % b)

Fraction(n, d) ==
  LET g == Gcd(Abs(n), Abs(d))
      sign == IF d < 0 THEN -1 ELSE 1
  IN [kind |-> "finite", n |-> sign * (n \div g), d |-> sign * (d \div g)]

NaN == [kind |-> "NaN", n |-> 0, d |-> 0]
Infinity(sign) == [kind |-> "Infinity", n |-> sign, d |-> 0]

\* a / b
Divide(a, b) ==
  IF b # 0 THEN Fraction(a, b)
  ELSE IF a = 0 THEN NaN
  ELSE Infinity(IF a > 0 THEN 1 ELSE -1)

\* x * k for a positive integer k
Times(x, k) == IF x.kind = "finite" THEN Fraction(x.n * k, x.d) ELSE x

\* the amounts of usage, in cents; every quotient of an individual by a nonzero
\* pooled amount has a power of two as denominator, so that the double
\* arithmetic of the code is exact on them
IndividualUsages == {0, 25, 50, 75, 100, 400}
PooledUsages == {0, 25, 50, 100, 200}

CalculateIndividualContributionDivides(individualUsed, pooledUsed) ==
  Times(Divide(individualUsed, pooledUsed), 100)

CalculateIndividualContribution(individualUsed, pooledUsed) ==
  IF pooledUsed = 0 THEN Fraction(0, 1)
  ELSE Times(Divide(individualUsed, pooledUsed), 100)

----------------------------------------------------------------------------
(* The program state as one record, so that the functions of extension.ts  *)
(* compose as they do in the code. Two fields are outputs of a step and    *)
(* not state: fx, the calls the step makes, in order, and rendered, the    *)
(* view the step leaves in the status bar item (Null when it writes none). *)

State ==
  [ now |-> now, refreshInterval |-> refreshInterval, timers |-> timers,
    isRefreshing |-> isRefreshing, cachedUserInfo |-> cachedUserInfo,
    cachedUsageData |-> cachedUsageData,
    cachedLeaderboardData |-> cachedLeaderboardData,
    fastRetryStartTime |-> fastRetryStartTime, calls |-> calls, config |-> config,
    rendered |-> Null, fx |-> <<>>, lastCycle |-> Null ]

LiveIds(s) == {t.id : t \in s.timers}

\* the handle setInterval returns: one that is not live (MaxTimers + 1 when the
\* model has run out of handles, which needs more than MaxTimers live timers)
NewTimerId(s) ==
  IF TimerIds \ LiveIds(s) = {} THEN MaxTimers + 1 ELSE Min(TimerIds \ LiveIds(s))

\* clearInterval(handle)
ClearInterval(s, handle) ==
  [s EXCEPT !.timers = {t \in @ : t.id # handle[1]},
            !.fx = @ \o <<"clearInterval">>]

\* refreshInterval = setInterval(() => void refreshStats(), period)
SetInterval(s, period) ==
  LET id == NewTimerId(s) IN
  [s EXCEPT !.timers = @ \cup {[id |-> id, period |-> period, due |-> s.now + period]},
            !.refreshInterval = Some(id),
            !.fx = @ \o <<"setInterval">>]

\* the renderer: statusBarItem.text / tooltip
LoadingView == [kind |-> "loading", message |-> "", usage |-> "", leaderboard |-> Null]
ErrorView(message) == [kind |-> "error", message |-> message, usage |-> "",
                       leaderboard |-> Null]
StatsView(data, leaderboardData) ==
  [kind |-> "stats", message |-> "", usage |-> data, leaderboard |-> leaderboardData]

ShowLoading(s) ==
  [s EXCEPT !.rendered = Some(LoadingView), !.fx = @ \o <<"showLoading">>]

ShowError(s, message) ==
  [s EXCEPT !.rendered = Some(ErrorView(message)), !.fx = @ \o <<"showError">>]

\* data.individualUsage.overall.used of a response without individualUsage
UpdateStatusBarThrows(data) == data = "malformed"

\* updateStatusBar(data, leaderboardData, userInfo); userInfo is not rendered
UpdateStatusBar(s, data, leaderboardData, userInfo) ==
  IF UpdateStatusBarThrows(data)
  THEN [s EXCEPT !.fx = @ \o <<"updateStatusBar">>]
  ELSE [s EXCEPT !.rendered = Some(StatsView(data, leaderboardData)),
                 !.fx = @ \o <<"updateStatusBar">>]

\* startRefreshInterval without the clearInterval of lines 144-146
StartRefreshIntervalLeaksTimer(s) == SetInterval(s, REFRESH_INTERVAL_MS)

StartRefreshInterval(s) ==
  SetInterval(IF Truthy(s.refreshInterval) THEN ClearInterval(s, s.refreshInterval) ELSE s,
              REFRESH_INTERVAL_MS)

StopRefreshInterval(s) ==
  IF Truthy(s.refreshInterval)
  THEN [ClearInterval(s, s.refreshInterval) EXCEPT !.refreshInterval = Null]
  ELSE s

\* startFastRetry without the clearInterval of lines 60-62
StartFastRetryLeaksTimer(s) ==
  IF TruthyNumber(s.fastRetryStartTime)
     /\ s.now - s.fastRetryStartTime[1] >= FAST_RETRY_DURATION_MS
  THEN StartRefreshInterval([s EXCEPT !.fastRetryStartTime = Null])
  ELSE SetInterval(IF ~TruthyNumber(s.fastRetryStartTime)
                   THEN [s EXCEPT !.fastRetryStartTime = Some(s.now)]
                   ELSE s,
                   FAST_RETRY_INTERVAL_MS)

\* startFastRetry with > for >= in line 46
StartFastRetryStrictLimit(s) ==
  IF TruthyNumber(s.fastRetryStartTime)
     /\ s.now - s.fastRetryStartTime[1] > FAST_RETRY_DURATION_MS
  THEN StartRefreshInterval([s EXCEPT !.fastRetryStartTime = Null])
  ELSE LET s1 == IF ~TruthyNumber(s.fastRetryStartTime)
                 THEN [s EXCEPT !.fastRetryStartTime = Some(s.now)]
                 ELSE s
           s2 == IF Truthy(s1.refreshInterval)
                 THEN ClearInterval(s1, s1.refreshInterval)
                 ELSE s1
       IN SetInterval(s2, FAST_RETRY_INTERVAL_MS)

\* startFastRetry whose reversion keeps the start timestamp (no line 48)
StartFastRetryKeepsStart(s) ==
  IF TruthyNumber(s.fastRetryStartTime)
     /\ s.now - s.fastRetryStartTime[1] >= FAST_RETRY_DURATION_MS
  THEN StartRefreshInterval(s)
  ELSE LET s1 == IF ~TruthyNumber(s.fastRetryStartTime)
                 THEN [s EXCEPT !.fastRetryStartTime = Some(s.now)]
                 ELSE s
           s2 == IF Truthy(s1.refreshInterval)
                 THEN ClearInterval(s1, s1.refreshInterval)
                 ELSE s1
       IN SetInterval(s2, FAST_RETRY_INTERVAL_MS)

StartFastRetry(s) ==
  IF TruthyNumber(s.fastRetryStartTime)
     /\ s.now - s.fastRetryStartTime[1] >= FAST_RETRY_DURATION_MS
  THEN StartRefreshInterval([s EXCEPT !.fastRetryStartTime = Null])
  ELSE LET s1 == IF ~TruthyNumber(s.fastRetryStartTime)
                 THEN [s EXCEPT !.fastRetryStartTime = Some(s.now)]
                 ELSE s
           s2 == IF Truthy(s1.refreshInterval)
                 THEN ClearInterval(s1, s1.refreshInterval)
                 ELSE s1
       IN SetInterval(s2, FAST_RETRY_INTERVAL_MS)

\* stopFastRetry without the startRefreshInterval() of line 76
StopFastRetryKeepsTimer(s) ==
  IF TruthyNumber(s.fastRetryStartTime)
  THEN [s EXCEPT !.fastRetryStartTime = Null]
  ELSE s

StopFastRetry(s) ==
  IF TruthyNumber(s.fastRetryStartTime)
  THEN StartRefreshInterval([s EXCEPT !.fastRetryStartTime = Null])
  ELSE s

----------------------------------------------------------------------------
(* refreshStats: the synchronous part up to its first await, and one       *)
(* continuation per await.                                                 *)

FreeSlots(s) == {i \in Slots : s.calls[i] = Null}

\* an invocation that has passed the guard and awaits getCursorTokenFromDB()
NewCall(s) ==
  [ pc |-> "token", token |-> Null, settings |-> Null, usage |-> Null,
    leaderboardsWanted |-> FALSE, leaderboardsPending |-> 0,
    startedInFastRetry |-> TruthyNumber(s.fastRetryStartTime),
    callbacks |-> <<>> ]                  \* the renderer callbacks of the cycle

RendererCallbacks == {"showLoading", "showError", "updateStatusBar"}

\* the renderer callbacks among the calls fx
Renderer(calls_) == SelectSeq(calls_, LAMBDA c : c \in RendererCallbacks)

\* the calls of fx after its first n
After(calls_, n) == SubSeq(calls_, n + 1, Len(calls_))

\* the invocation in `slot` has made the renderer callbacks among `made`
Callbacks(s, slot, made) ==
  [s EXCEPT !.calls[slot] = Some([@[1] EXCEPT !.callbacks = @ \o Renderer(made)])]

\* lines 91-96; the model holds at most MaxCalls invocations
BeginRefresh(s) ==
  IF FreeSlots(s) = {} THEN s
  ELSE LET slot == Min(FreeSlots(s))
           s1 == ShowLoading([s EXCEPT !.isRefreshing = TRUE,
                                       !.calls[slot] = Some(NewCall(s))])
       IN [Callbacks(s1, slot, After(s1.fx, Len(s.fx)))
             EXCEPT !.fx = @ \o <<"getCursorTokenFromDB">>]

\* refreshStats without the guard of lines 86-89
RefreshStatsUnguarded(s) == BeginRefresh(s)

\* refreshStats showing the loading state before it tests the flag
RefreshStatsLoadingFirst(s) ==
  IF s.isRefreshing THEN ShowLoading(s) ELSE BeginRefresh(s)

RefreshStats(s) ==
  IF s.isRefreshing THEN s ELSE BeginRefresh(s)

\* the finally block, and the end of the invocation in `slot`
Finally(s, slot, outcome) ==
  [s EXCEPT !.isRefreshing = FALSE,
            !.calls[slot] = Null,
            !.lastCycle = Some([ callbacks |-> s.calls[slot][1].callbacks \o Renderer(s.fx),
                                 startedInFastRetry |-> s.calls[slot][1].startedInFastRetry,
                                 usage |-> s.calls[slot][1].usage,
                                 outcome |-> outcome ])]

\* a catch block that treats the failure like a missing credential
CatchStartsFastRetry(s, slot, message, outcome) ==
  Finally(StartFastRetry(ShowError(s, message)), slot, outcome)

\* a catch block that only logs
CatchSilent(s, slot, message, outcome) == Finally(s, slot, outcome)

\* a catch block that returns without the reset of line 136
CatchLeavesFlagSet(s, slot, message, outcome) ==
  [Finally(ShowError(s, message), slot, outcome) EXCEPT !.isRefreshing = TRUE]

\* a catch block that publishes the usage summary a failed cycle has received
CatchPublishesUsage(s, slot, message, outcome) ==
  LET usage == s.calls[slot][1].usage IN
  IF Truthy(usage) /\ ~UpdateStatusBarThrows(usage[1])
  THEN Finally(UpdateStatusBar([s EXCEPT !.cachedUsageData = usage], usage[1],
                               s.cachedLeaderboardData, s.cachedUserInfo),
               slot, outcome)
  ELSE Finally(ShowError(s, message), slot, outcome)

\* the catch block (lines 131-134) followed by finally
Catch(s, slot, message, outcome) ==
  Finally(ShowError(s, message), slot, outcome)

\* lines 113-124 asking for the leaderboards of every user with a team
FetchAllIgnoresEnterprise(s, slot) ==
  LET leaderboardEnabled == s.config.enableLeaderboard
      leaderboardDays == s.config.leaderboardDateRange
      user == s.cachedUserInfo[1]
      wanted == leaderboardEnabled /\ user.teamId # 0
  IN [s EXCEPT
        !.calls[slot] = Some([@[1] EXCEPT
             !.pc = "fetch",
             !.settings = Some([enabled |-> leaderboardEnabled, days |-> leaderboardDays]),
             !.leaderboardsWanted = wanted,
             !.leaderboardsPending = IF wanted THEN 3 ELSE 0]),
        !.fx = @ \o <<"GET usage-summary">>
                 \o (IF wanted THEN <<"GET leaderboard", "GET leaderboard", "GET leaderboard">>
                     ELSE <<>>)]

\* lines 113-124: read the settings and issue the requests of Promise.all
FetchAll(s, slot) ==
  LET leaderboardEnabled == s.config.enableLeaderboard
      leaderboardDays == s.config.leaderboardDateRange
      user == s.cachedUserInfo[1]
      wanted == leaderboardEnabled /\ user.isEnterpriseUser /\ user.teamId # 0
  IN [s EXCEPT
        !.calls[slot] = Some([@[1] EXCEPT
             !.pc = "fetch",
             !.settings = Some([enabled |-> leaderboardEnabled, days |-> leaderboardDays]),
             !.leaderboardsWanted = wanted,
             !.leaderboardsPending = IF wanted THEN 3 ELSE 0]),
        !.fx = @ \o <<"GET usage-summary">>
                 \o (IF wanted THEN <<"GET leaderboard", "GET leaderboard", "GET leaderboard">>
                     ELSE <<>>)]

\* lines 98-111 without the test of the cache in line 108
AfterTokenRefetchesUserInfo(s, slot, token) ==
  IF ~Truthy(token)
  THEN Finally(StartFastRetry(ShowError(s, NotSignedInMessage)), slot, "noCredential")
  ELSE LET s1 == StopFastRetry(s)
           s2 == [s1 EXCEPT !.calls[slot] = Some([@[1] EXCEPT !.token = token])]
       IN [s2 EXCEPT !.calls[slot] = Some([@[1] EXCEPT !.pc = "userInfo"]),
                     !.fx = @ \o <<"GET get-me">>]

\* lines 98-111, run when getCursorTokenFromDB() has settled with `token`
AfterToken(s, slot, token) ==
  IF ~Truthy(token)
  THEN Finally(StartFastRetry(ShowError(s, NotSignedInMessage)), slot, "noCredential")
  ELSE LET s1 == StopFastRetry(s)
           s2 == [s1 EXCEPT !.calls[slot] = Some([@[1] EXCEPT !.token = token])]
       IN IF ~Truthy(s2.cachedUserInfo)
          THEN [s2 EXCEPT !.calls[slot] = Some([@[1] EXCEPT !.pc = "userInfo"]),
                          !.fx = @ \o <<"GET get-me">>]
          ELSE FetchAll(s2, slot)

\* line 110 onwards, run when fetchUserInfo has resolved
AfterUserInfo(s, slot, info) ==
  FetchAll([s EXCEPT !.cachedUserInfo = Some(info)], slot)

\* what fetchAllLeaderboards resolved with for the call's window, or the
\* Promise.resolve(null) of line 123
LeaderboardResult(call) ==
  IF call.leaderboardsWanted THEN Some([days |-> call.settings[1].days]) ELSE Null

\* lines 126-130 without the assignment of line 128
AfterAllKeepsLeaderboardCache(s, slot) ==
  LET call == s.calls[slot][1]
      usageData == call.usage[1]
      leaderboardData == LeaderboardResult(call)
      s1 == [s EXCEPT !.cachedUsageData = Some(usageData)]
      s2 == UpdateStatusBar(s1, usageData, leaderboardData, s1.cachedUserInfo)
  IN IF UpdateStatusBarThrows(usageData)
     THEN Catch(s2, slot, TypeErrorMessage, "renderError")
     ELSE Finally(s2, slot, "success")

\* lines 126-130, run when both promises of Promise.all have resolved
AfterAll(s, slot) ==
  LET call == s.calls[slot][1]
      usageData == call.usage[1]
      leaderboardData == LeaderboardResult(call)
      s1 == [s EXCEPT !.cachedUsageData = Some(usageData),
                      !.cachedLeaderboardData = leaderboardData]
      s2 == UpdateStatusBar(s1, usageData, leaderboardData, s1.cachedUserInfo)
  IN IF UpdateStatusBarThrows(usageData)
     THEN Catch(s2, slot, TypeErrorMessage, "renderError")
     ELSE Finally(s2, slot, "success")

AllSettled(call) == Truthy(call.usage) /\ call.leaderboardsPending = 0

\* fetchUsageSummary resolves with `data`
AfterUsage(s, slot, data) ==
  LET s1 == [s EXCEPT !.calls[slot] = Some([@[1] EXCEPT !.usage = Some(data)])]
  IN IF AllSettled(s1.calls[slot][1]) THEN AfterAll(s1, slot) ELSE s1

\* one of the three fetchLeaderboardWithSort requests resolves
AfterLeaderboard(s, slot) ==
  LET s1 == [s EXCEPT !.calls[slot] = Some([@[1] EXCEPT !.leaderboardsPending = @ - 1])]
  IN IF AllSettled(s1.calls[slot][1]) THEN AfterAll(s1, slot) ELSE s1

----------------------------------------------------------------------------
(* The listeners registered by activate() *)

\* a configListener that refreshes on every change
ConfigListenerAlwaysRefreshes(s, keys) ==
  RefreshStats([s EXCEPT !.cachedLeaderboardData = Null])

\* a focusListener that leaves an installed timer alone
FocusListenerKeepsTimer(s, focused) ==
  IF focused
  THEN LET s1 == RefreshStats(s)
       IN IF s1.refreshInterval # Null THEN s1 ELSE StartRefreshInterval(s1)
  ELSE StopRefreshInterval(s)

\* a focusListener without the refreshStats() of line 206
FocusListenerOnlyRestartsTimer(s, focused) ==
  IF focused THEN StartRefreshInterval(s) ELSE StopRefreshInterval(s)

\* focusListener (lines 203-211)
FocusListener(s, focused) ==
  IF focused THEN StartRefreshInterval(RefreshStats(s)) ELSE StopRefreshInterval(s)

\* configListener (lines 214-234); `keys` are the settings the event affects.
\* An exception of updateStatusBar leaves the listener at line 219.
ConfigListener(s, keys) ==
  LET rerender == "statusBarRankDisplay" \in keys /\ Truthy(s.cachedUsageData)
      s1 == IF rerender
            THEN UpdateStatusBar(s, s.cachedUsageData[1], s.cachedLeaderboardData,
                                 s.cachedUserInfo)
            ELSE s
      s2 == IF "enableLeaderboard" \in keys
            THEN RefreshStats([s1 EXCEPT !.cachedLeaderboardData = Null])
            ELSE s1
      s3 == IF "leaderboardDateRange" \in keys
            THEN RefreshStats([s2 EXCEPT !.cachedLeaderboardData = Null])
            ELSE s2
  IN IF rerender /\ UpdateStatusBarThrows(s.cachedUsageData[1]) THEN s1 ELSE s3

----------------------------------------------------------------------------
(* The state machine *)

\* the settings refreshStats reads; statusBarRankDisplay is read by the renderer
DefaultConfig == [enableLeaderboard |-> TRUE, leaderboardDateRange |-> 30]

Configs == [enableLeaderboard : BOOLEAN, leaderboardDateRange : LeaderboardDays]

\* the module state when extension.ts is loaded (lines 21-36)
Loaded ==
  [ now |-> ActivationTime, refreshInterval |-> Null, timers |-> {},
    isRefreshing |-> FALSE, cachedUserInfo |-> Null, cachedUsageData |-> Null,
    cachedLeaderboardData |-> Null, fastRetryStartTime |-> Null,
    calls |-> [i \in Slots |-> Null], config |-> DefaultConfig,
    rendered |-> Null, fx |-> <<>>, lastCycle |-> Null ]

\* the program variables take the values of the record `s`
Becomes(s) ==
  /\ refreshInterval' = s.refreshInterval
  /\ timers' = s.timers
  /\ isRefreshing' = s.isRefreshing
  /\ cachedUserInfo' = s.cachedUserInfo
  /\ cachedUsageData' = s.cachedUsageData
  /\ cachedLeaderboardData' = s.cachedLeaderboardData
  /\ fastRetryStartTime' = s.fastRetryStartTime
  /\ calls' = s.calls
  /\ config' = s.config
  /\ lastCycle' = s.lastCycle

\* activate() (lines 166-253): startRefreshInterval() and the delayed first fetch
Activated ==
  LET s == StartRefreshInterval(Loaded) IN
  /\ now = ActivationTime
  /\ refreshInterval = s.refreshInterval
  /\ timers = s.timers
  /\ initialFetch = Some(ActivationTime + INITIAL_FETCH_DELAY_MS)
  /\ isRefreshing = s.isRefreshing
  /\ cachedUserInfo = s.cachedUserInfo
  /\ cachedUsageData = s.cachedUsageData
  /\ cachedLeaderboardData = s.cachedLeaderboardData
  /\ fastRetryStartTime = s.fastRetryStartTime
  /\ calls = s.calls
  /\ config = s.config
  /\ windowFocused = TRUE
  /\ skipped = FALSE
  /\ lastCycle = s.lastCycle

\* the extension, where getCursorTokenFromDB is known by what it resolves with
Init ==
  /\ Activated
  /\ database = Null
  /\ extraction = Null
  /\ deactivated = FALSE
  /\ outstanding = Null
  /\ arguments = Null
  /\ returned = Null
  /\ windows = Null

\* the extension on a machine with one of the databases
DbInit ==
  /\ Activated
  /\ database \in {Some(db) : db \in Databases}
  /\ extraction = Null
  /\ deactivated = FALSE
  /\ outstanding = Null
  /\ arguments = Null
  /\ returned = Null
  /\ windows = Null

\* time passes
\* time passes; the setTimeout of activate() is not overtaken
Advance ==
  \E d \in IF initialFetch # Null THEN {initialFetch[1] - now} ELSE Delays :
    /\ d > 0
    /\ now + d <= MaxTime
    /\ now' = now + d
    /\ Becomes(State)
    /\ skipped' = FALSE
    /\ UNCHANGED <<initialFetch, windowFocused, database, extraction, deactivated,
                 outstanding, arguments, returned, windows>>

\* a live interval timer fires (lines 64-66 and 148-150)
Tick ==
  \E t \in timers :
    /\ now >= t.due
    /\ Becomes(RefreshStats([State EXCEPT
                 !.timers = (@ \ {t}) \cup {[t EXCEPT !.due = now + t.period]}]))
    /\ skipped' = isRefreshing
    /\ UNCHANGED <<now, initialFetch, windowFocused, database, extraction, deactivated,
                 outstanding, arguments, returned, windows>>

\* the setTimeout of lines 249-251 fires
InitialFetch ==
  /\ initialFetch # Null
  /\ now >= initialFetch[1]
  /\ initialFetch' = Null
  /\ Becomes(RefreshStats(State))
  /\ skipped' = isRefreshing
  /\ UNCHANGED <<now, windowFocused, database, extraction, deactivated,
                 outstanding, arguments, returned, windows>>

\* the cursor-enterprise-stats.refresh command (lines 180-186); the command and
\* the listeners are subscriptions (lines 237-243), disposed of at deactivation
ManualRefresh ==
  /\ ~deactivated
  /\ Becomes(RefreshStats(State))
  /\ skipped' = isRefreshing
  /\ UNCHANGED <<now, initialFetch, windowFocused, database, extraction, deactivated,
                 outstanding, arguments, returned, windows>>

\* onDidChangeWindowState fires with e.focused
FocusGained ==
  /\ ~deactivated
  /\ windowFocused' = TRUE
  /\ Becomes(FocusListener(State, TRUE))
  /\ skipped' = isRefreshing
  /\ UNCHANGED <<now, initialFetch, database, extraction, deactivated,
                 outstanding, arguments, returned, windows>>

FocusLost ==
  /\ ~deactivated
  /\ windowFocused' = FALSE
  /\ Becomes(FocusListener(State, FALSE))
  /\ skipped' = FALSE
  /\ UNCHANGED <<now, initialFetch, database, extraction, deactivated,
                 outstanding, arguments, returned, windows>>

\* the configuration after a change of the settings `keys`
Changed(old, keys) ==
  {c \in Configs :
     /\ (c.enableLeaderboard # old.enableLeaderboard) = ("enableLeaderboard" \in keys)
     /\ (c.leaderboardDateRange # old.leaderboardDateRange)
          = ("leaderboardDateRange" \in keys)}

\* the user changes the settings `keys`; onDidChangeConfiguration fires
ConfigChangeTo(keys, new) ==
  /\ ~deactivated
  /\ new \in Changed(config, keys)
  /\ Becomes(ConfigListener([State EXCEPT !.config = new], keys))
  /\ skipped' = (isRefreshing /\ keys # {"statusBarRankDisplay"})
  /\ UNCHANGED <<now, initialFetch, windowFocused, database, extraction, deactivated,
                 outstanding, arguments, returned, windows>>

ConfigChange ==
  \E keys \in SUBSET ConfigKeys \ {{}}, new \in Configs : ConfigChangeTo(keys, new)

Awaiting(slot, pc) == calls[slot] # Null /\ calls[slot][1].pc = pc

\* a continuation of the invocation in `slot` has run and left the state r
Continues(r, slot) ==
  /\ Becomes(IF r.calls[slot] # Null THEN Callbacks(r, slot, r.fx) ELSE r)
  /\ skipped' = FALSE
  /\ UNCHANGED <<now, initialFetch, windowFocused>>

Continued(r, slot) ==
  /\ Continues(r, slot)
  /\ UNCHANGED <<database, extraction, deactivated,
                 outstanding, arguments, returned, windows>>

\* getCursorTokenFromDB() settles with a credential or with undefined
TokenSettlesWith(slot, token) ==
  /\ Awaiting(slot, "token")
  /\ Continued(AfterToken(State, slot, token), slot)

TokenSettles ==
  \E slot \in Slots, token \in {Null} \cup {Some(c) : c \in Credentials} :
    TokenSettlesWith(slot, token)

\* fetchUserInfo resolves with the response `info`
UserInfoSettlesWith(slot, info) ==
  /\ Awaiting(slot, "userInfo")
  /\ Continued(AfterUserInfo(State, slot, info), slot)

UserInfoSettles ==
  \E slot \in Slots, info \in UserInfos : UserInfoSettlesWith(slot, info)

UserInfoFailsWith(slot, message) ==
  /\ Awaiting(slot, "userInfo")
  /\ Continued(Catch(State, slot, message, "fetchError"), slot)

UserInfoFails ==
  \E slot \in Slots, message \in FetchErrorMessages : UserInfoFailsWith(slot, message)

UsageSettles ==
  \E slot \in Slots, data \in UsageResponses :
    /\ Awaiting(slot, "fetch")
    /\ calls[slot][1].usage = Null
    /\ Continued(AfterUsage(State, slot, data), slot)

LeaderboardSettles ==
  \E slot \in Slots :
    /\ Awaiting(slot, "fetch")
    /\ calls[slot][1].leaderboardsPending > 0
    /\ Continued(AfterLeaderboard(State, slot), slot)

\* the requests of the invocation `call` that have not settled
Pending(call) == (IF call.usage = Null THEN 1 ELSE 0) + call.leaderboardsPending

\* a refresh ends while n of its requests are pending: nothing cancels them
Abandons(n) ==
  /\ outstanding # Null => outstanding[1] + n <= MaxOutstanding
  /\ outstanding' = IF outstanding = Null THEN Null ELSE Some(outstanding[1] + n)
  /\ UNCHANGED <<database, extraction, deactivated, arguments, returned, windows>>

\* fetchUsageSummary rejects: Promise.all rejects (line 119)
UsageFailsWith(slot, message) ==
  /\ Awaiting(slot, "fetch")
  /\ calls[slot][1].usage = Null
  /\ Continues(Catch(State, slot, message, "fetchError"), slot)
  /\ Abandons(Pending(calls[slot][1]) - 1)

\* one fetchLeaderboardWithSort rejects: the Promise.all of fetchAllLeaderboards
\* rejects (api.ts line 319), and with it that of line 119
LeaderboardFailsWith(slot, message) ==
  /\ Awaiting(slot, "fetch")
  /\ calls[slot][1].leaderboardsPending > 0
  /\ Continues(Catch(State, slot, message, "fetchError"), slot)
  /\ Abandons(Pending(calls[slot][1]) - 1)

FetchFailsWith(slot, message) ==
  UsageFailsWith(slot, message) \/ LeaderboardFailsWith(slot, message)

FetchFails ==
  \E slot \in Slots, message \in FetchErrorMessages : FetchFailsWith(slot, message)

Next ==
  \/ Advance
  \/ Tick
  \/ InitialFetch
  \/ ManualRefresh
  \/ FocusGained
  \/ FocusLost
  \/ ConfigChange
  \/ TokenSettles
  \/ UserInfoSettles
  \/ UserInfoFails
  \/ UsageSettles
  \/ LeaderboardSettles
  \/ FetchFails

Spec == Init /\ [][Next]_vars

\* the await of line 96 on this machine's database: getCursorTokenFromDB()
\* resolves, or rejects into the catch block of line 131
TokenRead(slot) ==
  LET read == GetCursorTokenFromDB(database[1]) IN
  /\ database # Null
  /\ Awaiting(slot, "token")
  /\ extraction' = Some(read)
  /\ Continues(IF read.raised = Null
               THEN AfterToken(State, slot, read.result)
               ELSE Catch(State, slot, read.raised[1], "tokenError"), slot)
  /\ UNCHANGED <<database, deactivated, outstanding, arguments, returned, windows>>

TokenReads == \E slot \in Slots : TokenRead(slot)

\* refreshes by the manual command against the database of the machine
DbNext ==
  \/ ManualRefresh
  \/ TokenReads

DbSpec == DbInit /\ [][DbNext]_vars

\* an operation a refresh awaits completes: the token read, fetchUserInfo, or
\* a request of Promise.all
Settles ==
  \/ TokenSettles
  \/ UserInfoSettles
  \/ UserInfoFails
  \/ UsageSettles
  \/ LeaderboardSettles
  \/ FetchFails

\* the refresh cycles the timers, the initial fetch and the manual command
\* start, with the window focused and the settings left alone
RefreshCycles ==
  \/ Advance
  \/ Tick
  \/ InitialFetch
  \/ ManualRefresh
  \/ Settles

\* the refresh cycles, where every awaited operation eventually completes
FairSpec == Init /\ [][RefreshCycles]_vars /\ WF_vars(Settles)

\* the variables of the orchestrator
extension == <<now, refreshInterval, timers, initialFetch, isRefreshing,
               cachedUserInfo, cachedUsageData, cachedLeaderboardData,
               fastRetryStartTime, calls, config, windowFocused, skipped, lastCycle>>

\* deactivate() (lines 261-265)
Deactivate ==
  /\ ~deactivated
  /\ deactivated' = TRUE
  /\ Becomes(StopRefreshInterval(State))
  /\ skipped' = FALSE
  /\ UNCHANGED <<now, initialFetch, windowFocused, database, extraction,
                 outstanding, arguments, returned, windows>>

\* a request of a refresh that has ended settles: nothing awaits it
AbandonedSettles ==
  /\ outstanding # Null
  /\ outstanding[1] > 0
  /\ outstanding' = Some(outstanding[1] - 1)
  /\ UNCHANGED <<extension, database, extraction, deactivated, arguments, returned, windows>>

\* the extension with the requests of ended refreshes counted
RuntimeInit ==
  /\ Activated
  /\ database = Null
  /\ extraction = Null
  /\ deactivated = FALSE
  /\ outstanding = Some(0)
  /\ arguments = Null
  /\ returned = Null
  /\ windows = Null

\* the refresh cycles up to and after deactivate()
RuntimeNext ==
  \/ RefreshCycles
  \/ Deactivate
  \/ AbandonedSettles

RuntimeSpec == RuntimeInit /\ [][RuntimeNext]_vars

Max(a, b) == IF a >= b THEN a ELSE b

\* Time passes, seen from a clock that is set back to `now` at every step: the
\* timestamps the program holds move into the past instead. The program reads
\* the clock in differences only: now - fastRetryStartTime against
\* FAST_RETRY_DURATION_MS (line 46), and a timer is due or not; so a start
\* more than a window old is kept as one window old, and a due time in the
\* past as due now. The setTimeout of activate() is not overtaken.
Elapse ==
  \E d \in IF initialFetch # Null THEN {initialFetch[1] - now}
           ELSE Delays \cup {FAST_RETRY_INTERVAL_MS} :
    /\ d > 0
    /\ fastRetryStartTime' =
         IF fastRetryStartTime = Null THEN Null
         ELSE Some(Max(fastRetryStartTime[1] - d, now - FAST_RETRY_DURATION_MS))
    /\ timers' = {[t EXCEPT !.due = Max(t.due - d, now)] : t \in timers}
    /\ initialFetch' = IF initialFetch = Null THEN Null
                       ELSE Some(Max(initialFetch[1] - d, now))
    /\ lastCycle' = Null
    /\ skipped' = FALSE
    /\ UNCHANGED <<now, refreshInterval, isRefreshing, cachedUserInfo, cachedUsageData,
                   cachedLeaderboardData, calls, config, windowFocused, database,
                   extraction, deactivated, outstanding, arguments, returned, windows>>

\* getCursorTokenFromDB() settles with undefined: Cursor is not signed in
TokenAbsent(slot) ==
  /\ Awaiting(slot, "token")
  /\ Continues(AfterToken(State, slot, Null), slot)
  /\ windows' = IF fastRetryStartTime = Null /\ fastRetryStartTime' # Null
                THEN Some(Min({windows[1] + 1, MaxWindows}))
                ELSE windows
  /\ UNCHANGED <<database, extraction, deactivated, outstanding, arguments, returned>>

TokenAbsents == \E slot \in Slots : TokenAbsent(slot)

\* the extension on a machine where Cursor is never signed in
RetryInit ==
  /\ Activated
  /\ database = Null
  /\ extraction = Null
  /\ deactivated = FALSE
  /\ outstanding = Null
  /\ arguments = Null
  /\ returned = Null
  /\ windows = Some(0)

\* the window stays focused and the settings are left alone
RetryNext ==
  \/ Elapse
  \/ Tick
  \/ InitialFetch
  \/ TokenAbsents

\* time passes, due timers fire and the token read completes
RetrySpec ==
  /\ RetryInit
  /\ [][RetryNext]_vars
  /\ WF_vars(Elapse) /\ WF_vars(Tick) /\ WF_vars(InitialFetch) /\ WF_vars(TokenAbsents)

\* the calls of the functions of services/api.ts
ApiCalls ==
  {<<"fetchAllLeaderboards", outcomes, userEmail>> :
     outcomes \in LeaderboardOutcomes \X LeaderboardOutcomes \X LeaderboardOutcomes,
     userEmail \in Emails}
  \cup
  {<<"calculateIndividualContribution", individualUsed, pooledUsed>> :
     individualUsed \in IndividualUsages, pooledUsed \in PooledUsages}

\* one of the calls is about to be made
ApiInit ==
  /\ Activated
  /\ database = Null
  /\ extraction = Null
  /\ deactivated = FALSE
  /\ outstanding = Null
  /\ arguments \in {Some(call) : call \in ApiCalls}
  /\ returned = Null
  /\ windows = Null

Calling(function) == arguments[1][1] = function /\ returned = Null

\* fetchAllLeaderboards returns or throws, its three requests settled
FetchAllLeaderboardsCalled ==
  /\ Calling("fetchAllLeaderboards")
  /\ returned' = Some(FetchAllLeaderboards(arguments[1][2], arguments[1][3]))
  /\ UNCHANGED <<extension, database, extraction, deactivated, outstanding, arguments, windows>>

CalculateIndividualContributionCalled ==
  /\ Calling("calculateIndividualContribution")
  /\ returned' = Some(CalculateIndividualContribution(arguments[1][2], arguments[1][3]))
  /\ UNCHANGED <<extension, database, extraction, deactivated, outstanding, arguments, windows>>

ApiNext ==
  \/ FetchAllLeaderboardsCalled
  \/ CalculateIndividualContributionCalled

ApiSpec == ApiInit /\ [][ApiNext]_vars

----------------------------------------------------------------------------
(* Properties *)

InFlight == {slot \in Slots : calls[slot] # Null}

\* the one live timer, of the given period, armed at the current time
OnlyTimer(period) ==
  /\ \E t \in timers' : timers' = {t} /\ t.period = period /\ t.due = now + period
                        /\ refreshInterval' = Some(t.id)

NoCredentialStep(slot) == TokenSettlesWith(slot, Null)

Finished(outcome) == lastCycle # Null /\ lastCycle[1].outcome = outcome

\* C1: at most one refreshStats invocation has passed the busy-flag guard and
\* not finished, whatever the interleaving of ticks, manual refreshes, focus
\* events, configuration changes and the initial fetch; the flag is set exactly
\* while one is in flight.
C1_SingleFlight ==
  /\ Cardinality(InFlight) <= 1
  /\ isRefreshing = (InFlight # {})

\* a trigger has just been turned away while an invocation awaits its requests
C1_Witness == skipped /\ \E slot \in Slots : Awaiting(slot, "fetch")

\* C2: refreshStats invoked while a refresh is in flight does nothing: it makes
\* no call at all (no token read, no request, no renderer callback) and changes
\* neither the flag, the caches, the retry mode, the invocations in flight nor
\* the timer; a step that is only such an invocation (tick, manual command,
\* initial fetch) leaves all of them as they were.
C2_BusyRefreshIsNoOp ==
  [][ (isRefreshing /\ (Tick \/ ManualRefresh \/ InitialFetch))
      => /\ RefreshStats(State) = State
         /\ UNCHANGED <<isRefreshing, cachedUserInfo, cachedUsageData,
                        cachedLeaderboardData, fastRetryStartTime, calls,
                        refreshInterval>>
         /\ {<<t.id, t.period>> : t \in timers'} = {<<t.id, t.period>> : t \in timers}
         /\ lastCycle' = Null ]_vars

\* a trigger has just been turned away while the token is being read
C2_Witness == skipped /\ \E slot \in Slots : Awaiting(slot, "token")

\* C3: a refresh that finds no credential while the retry mode is Normal shows
\* "Not signed in to Cursor", sets the retry mode to FastRetry(now) and leaves
\* the 1-second timer as the only live timer.
C3_NoCredentialEntersFastRetry ==
  [][ \A slot \in Slots :
        (NoCredentialStep(slot) /\ ~TruthyNumber(fastRetryStartTime))
        => /\ AfterToken(State, slot, Null).rendered = Some(ErrorView(NotSignedInMessage))
           /\ fastRetryStartTime' = Some(now)
           /\ OnlyTimer(FAST_RETRY_INTERVAL_MS)
           /\ ~isRefreshing' ]_vars

\* a cycle that began in Normal mode has just ended without a credential
C3_Witness ==
  /\ Finished("noCredential")
  /\ ~lastCycle[1].startedInFastRetry
  /\ fastRetryStartTime = Some(now)

\* C4: the FastRetry start timestamp is never moved while the mode is FastRetry;
\* a refresh that finds no credential less than 60 s after it keeps the mode and
\* re-arms the 1-second timer, and one that finds no credential 60 s or more
\* after it sets the mode to Normal and installs the 60-second timer.
C4_FastRetryIsBounded ==
  [][ /\ (TruthyNumber(fastRetryStartTime) /\ TruthyNumber(fastRetryStartTime'))
         => fastRetryStartTime' = fastRetryStartTime
      /\ \A slot \in Slots :
           (NoCredentialStep(slot) /\ TruthyNumber(fastRetryStartTime))
           => IF now - fastRetryStartTime[1] >= FAST_RETRY_DURATION_MS
              THEN fastRetryStartTime' = Null /\ OnlyTimer(REFRESH_INTERVAL_MS)
              ELSE fastRetryStartTime' = fastRetryStartTime
                   /\ OnlyTimer(FAST_RETRY_INTERVAL_MS) ]_vars

\* a cycle that began in FastRetry has just ended without a credential and
\* the mode is Normal
C4_Witness ==
  /\ Finished("noCredential")
  /\ lastCycle[1].startedInFastRetry
  /\ fastRetryStartTime = Null
  /\ \E t \in timers : t.period = REFRESH_INTERVAL_MS

IsRequest(c) == c \in {"GET get-me", "GET usage-summary", "GET leaderboard"}

\* every request among the calls fx is issued after the timer was installed
TimerBeforeRequests(calls_) ==
  /\ \E i \in DOMAIN calls_ : calls_[i] = "setInterval"
  /\ \E j \in DOMAIN calls_ : IsRequest(calls_[j])
  /\ \A i, j \in DOMAIN calls_ :
       (calls_[i] \in {"clearInterval", "setInterval"} /\ IsRequest(calls_[j])) => i < j

\* C5: a refresh that obtains a credential while the retry mode is FastRetry
\* sets the mode to Normal and leaves the 60-second timer as the only live
\* timer, before it issues its first API request.
C5_CredentialStopsFastRetry ==
  [][ \A slot \in Slots, c \in Credentials :
        (TokenSettlesWith(slot, Some(c)) /\ TruthyNumber(fastRetryStartTime))
        => /\ fastRetryStartTime' = Null
           /\ OnlyTimer(REFRESH_INTERVAL_MS)
           /\ TimerBeforeRequests(AfterToken(State, slot, Some(c)).fx) ]_vars

\* an invocation that began in FastRetry holds a credential and the mode is Normal
C5_Witness ==
  \E slot \in Slots :
    /\ calls[slot] # Null
    /\ calls[slot][1].startedInFastRetry
    /\ calls[slot][1].token # Null
    /\ fastRetryStartTime = Null

FetchFailure(slot, message) ==
  UserInfoFailsWith(slot, message) \/ FetchFailsWith(slot, message)

\* C6 as claimed: a cycle that ended with an exception during fetch ended Idle,
\* with showError, and in the retry mode in which it began.
C6_RetryModeAsAtBegin ==
  Finished("fetchError")
  => /\ ~isRefreshing
     /\ lastCycle[1].callbacks = <<"showLoading", "showError">>
     /\ TruthyNumber(fastRetryStartTime) = lastCycle[1].startedInFastRetry

\* C6 as amended: a refresh that ends with an exception during fetch shows the
\* error's message through showError and returns to Idle; its catch block
\* changes neither the retry mode nor the timer, and the mode is then Normal
\* (a cycle that began in FastRetry left it when it obtained the credential),
\* so the failure never enters FastRetry.
C6_FetchErrorKeepsRetryMode ==
  [][ \A slot \in Slots, message \in FetchErrorMessages :
        FetchFailure(slot, message)
        => /\ Catch(State, slot, message, "fetchError").rendered = Some(ErrorView(message))
           /\ lastCycle'[1].callbacks = <<"showLoading", "showError">>
           /\ ~isRefreshing'
           /\ UNCHANGED <<fastRetryStartTime, timers, refreshInterval>>
           /\ fastRetryStartTime' = Null ]_vars

\* a cycle that began in FastRetry has just ended with an exception during fetch
C6_Witness == Finished("fetchError") /\ lastCycle[1].startedInFastRetry

\* C7 as claimed: while the window is unfocused no interval timer is live.
C7_NoTimerWhileUnfocused == ~windowFocused => timers = {}

\* the leaderboard settings a configuration holds, as refreshStats reads them
SettingsOf(c) == [enabled |-> c.enableLeaderboard, days |-> c.leaderboardDateRange]

LeaderboardKeys == {"enableLeaderboard", "leaderboardDateRange"}

\* C8 as claimed: once a change of a leaderboard setting is handled, the
\* leaderboard cache is empty and an invocation is in flight that has not yet
\* read the settings or has read the new ones.
C8_LeaderboardChangeForcesRefresh ==
  [][ \A keys \in SUBSET ConfigKeys, new \in Configs :
        (keys \cap LeaderboardKeys # {} /\ ConfigChangeTo(keys, new))
        => /\ cachedLeaderboardData' = Null
           /\ \E slot \in Slots :
                /\ calls'[slot] # Null
                /\ calls'[slot][1].settings \in {Null, Some(SettingsOf(new))} ]_vars

\* C9: a change of the rank-display setting alone starts no refresh, reads no
\* token, issues no request and changes no cache, flag, retry mode, invocation
\* or timer; it calls updateStatusBar, once, with the cached usage, leaderboard
\* and user data, exactly when cached usage data exists, and nothing otherwise.
C9_RankChangeOnlyRerenders ==
  LET s == State
      r == ConfigListener(s, {"statusBarRankDisplay"})
  IN /\ [r EXCEPT !.fx = <<>>, !.rendered = Null] = s
     /\ r.fx = IF Truthy(cachedUsageData) THEN <<"updateStatusBar">> ELSE <<>>
     /\ r.rendered =
          IF Truthy(cachedUsageData) /\ ~UpdateStatusBarThrows(cachedUsageData[1])
          THEN Some(StatsView(cachedUsageData[1], cachedLeaderboardData))
          ELSE Null

\* the caches a re-render publishes are filled while another refresh is in flight:
\* a rank-display change leaves a state as it is, so this state is one it was
\* handled in
C9_Witness ==
  /\ Truthy(cachedUsageData) /\ ~UpdateStatusBarThrows(cachedUsageData[1])
  /\ Truthy(cachedLeaderboardData)
  /\ isRefreshing

\* C10 as claimed: a finished refresh cycle has called exactly one renderer callback.
C10_ExactlyOneCallback == lastCycle # Null => Len(lastCycle[1].callbacks) = 1

\* C10 as amended: every refresh cycle calls showLoading() first and then ends
\* with showError(message) or update(...): update alone on success, showError
\* alone when there is no credential or a request fails, and update followed
\* by showError when update itself throws.
C10_LoadingThenOutcome ==
  lastCycle # Null
  => lastCycle[1].callbacks =
       CASE lastCycle[1].outcome = "success" -> <<"showLoading", "updateStatusBar">>
         [] lastCycle[1].outcome = "renderError"
              -> <<"showLoading", "updateStatusBar", "showError">>
         [] OTHER -> <<"showLoading", "showError">>

\* a cycle has just ended in the catch block because update threw
C10_Witness ==
  /\ Finished("renderError")
  /\ lastCycle[1].callbacks = <<"showLoading", "updateStatusBar", "showError">>

\* how many of the calls fx are the call c
Count(calls_, c) == Len(SelectSeq(calls_, LAMBDA x : x = c))

\* C11: cached user info, once fetched, is never fetched again and never
\* cleared or replaced: get-me is requested only by a refresh that finds the
\* cache empty, fetchUserInfo resolves only into an empty cache (so it succeeds
\* at most once), and every refresh that holds a credential and is past the
\* user-info step requests the usage summary, once.
C11_UserInfoFetchedOnce ==
  [][ /\ Truthy(cachedUserInfo) => cachedUserInfo' = cachedUserInfo
      /\ \A slot \in Slots, c \in Credentials :
           TokenSettlesWith(slot, Some(c))
           => LET made == AfterToken(State, slot, Some(c)).fx
              IN IF Truthy(cachedUserInfo)
                 THEN Count(made, "GET get-me") = 0 /\ Count(made, "GET usage-summary") = 1
                 ELSE Count(made, "GET get-me") = 1 /\ Count(made, "GET usage-summary") = 0
      /\ \A slot \in Slots, info \in UserInfos :
           UserInfoSettlesWith(slot, info)
           => LET made == AfterUserInfo(State, slot, info).fx
              IN /\ cachedUserInfo = Null
                 /\ cachedUserInfo' = Some(info)
                 /\ Count(made, "GET get-me") = 0
                 /\ Count(made, "GET usage-summary") = 1 ]_vars

\* a refresh after a successful one awaits its requests with the user info
\* taken from the cache
C11_Witness ==
  /\ Truthy(cachedUserInfo)
  /\ Truthy(cachedUsageData)
  /\ \E slot \in Slots : Awaiting(slot, "fetch") /\ calls[slot][1].usage = Null

\* the condition of line 121 on the settings a refresh read and the cached user
LeaderboardCondition(enabled, user) ==
  enabled /\ user.isEnterpriseUser /\ user.teamId # 0

\* the refresh in `slot` has just issued the requests of Promise.all
IssuesRequests(slot) ==
  \/ \E c \in Credentials : TokenSettlesWith(slot, Some(c)) /\ Truthy(cachedUserInfo)
  \/ \E info \in UserInfos : UserInfoSettlesWith(slot, info)

\* the calls made by the step that issues the requests of the refresh in `slot`
RequestsMade(slot) ==
  IF Awaiting(slot, "token")
  THEN AfterToken(State, slot, Some(CHOOSE c \in Credentials : TRUE)).fx
  ELSE AfterUserInfo(State, slot, cachedUserInfo'[1]).fx

\* C12: a refresh that holds a credential requests the leaderboards (three
\* requests) if and only if enableLeaderboard is true, the cached user is an
\* enterprise user and the cached user's team id is truthy; otherwise it makes
\* no leaderboard request, its leaderboard result is null, and when it
\* succeeds it sets the leaderboard cache to null.
C12_LeaderboardCondition ==
  [][ /\ \A slot \in Slots :
           IssuesRequests(slot)
           => LET wanted == LeaderboardCondition(config.enableLeaderboard,
                                                 cachedUserInfo'[1])
              IN /\ calls'[slot][1].leaderboardsWanted = wanted
                 /\ Count(RequestsMade(slot), "GET leaderboard") = IF wanted THEN 3 ELSE 0
                 /\ ~wanted => LeaderboardResult(calls'[slot][1]) = Null
      /\ \A slot \in Slots :
           (Awaiting(slot, "fetch") /\ ~calls[slot][1].leaderboardsWanted)
           => /\ ~LeaderboardSettles
              /\ (UsageSettles /\ Finished("success")') => cachedLeaderboardData' = Null
    ]_vars

\* a refresh of a user who is not an enterprise user has just succeeded with
\* the leaderboard enabled, and the leaderboard cache is empty
C12_Witness ==
  /\ Finished("success")
  /\ config.enableLeaderboard
  /\ Truthy(cachedUserInfo) /\ ~cachedUserInfo[1].isEnterpriseUser
  /\ cachedLeaderboardData = Null

\* C13: at most one interval timer is live at any time, it is the one the
\* module's handle names, and its period is 60 s or 1 s; no timer is live
\* without the handle naming it.
C13_OneTimer ==
  /\ Cardinality(timers) <= 1
  /\ \A t \in timers :
       /\ t.period \in {REFRESH_INTERVAL_MS, FAST_RETRY_INTERVAL_MS}
       /\ refreshInterval = Some(t.id)
  /\ timers = {} => refreshInterval = Null

\* the 1-second timer has replaced the 60-second one and its tick has begun a refresh
C13_Witness ==
  /\ TruthyNumber(fastRetryStartTime)
  /\ isRefreshing
  /\ \E t \in timers : timers = {t} /\ t.period = FAST_RETRY_INTERVAL_MS /\ t.due > now

\* C14: the flag is set while an invocation is past the guard (so before its
\* first await), and, provided every awaited operation eventually completes, a
\* set flag is eventually cleared with no invocation left in flight, whichever
\* way the cycle goes (no credential, success, failed request, update throwing).
C14_BusyEventuallyIdle ==
  /\ [](InFlight # {} => isRefreshing)
  /\ isRefreshing ~> (~isRefreshing /\ InFlight = {})

\* a cycle in which update threw has ended and the flag is clear
C14_Witness ==
  /\ Finished("renderError")
  /\ ~isRefreshing
  /\ InFlight = {}

\* the leaderboard data the invocation `call` asked for: those of the date
\* range it read from the settings, or none
Fetched(call) ==
  IF call.leaderboardsWanted THEN Some([days |-> call.settings[1].days]) ELSE Null

\* the refresh of `call` has ended in r with success on the usage summary `data`
SucceededWith(r, slot, call, data) ==
  /\ r.lastCycle # Null /\ r.lastCycle[1].outcome = "success"
  /\ r.cachedUsageData = Some(data)
  /\ r.cachedLeaderboardData = Fetched(call)
  /\ r.cachedUserInfo = cachedUserInfo /\ cachedUserInfo # Null
  /\ Count(r.fx, "updateStatusBar") = 1
  /\ Renderer(r.fx) = <<"updateStatusBar">>
  /\ r.rendered = Some(StatsView(data, Fetched(call)))
  /\ ~r.isRefreshing /\ r.calls[slot] = Null
  /\ r.fastRetryStartTime = Null

\* the usage summaries the renderer can show
Renderable == {data \in UsageResponses : ~UpdateStatusBarThrows(data)}

\* C23: when the last request of a refresh resolves (the usage summary, or a
\* leaderboard request after it), the caches hold exactly the usage summary
\* and the leaderboard data of this refresh, updateStatusBar has been called
\* once with them and the cached UserInfo, the flag is clear and the retry
\* mode is Normal
C23_SuccessStoresAndRenders ==
  \A slot \in Slots :
    Awaiting(slot, "fetch") =>
      LET call == calls[slot][1] IN
      /\ (call.usage = Null /\ call.leaderboardsPending = 0) =>
           \A data \in Renderable :
             SucceededWith(AfterUsage(State, slot, data), slot, call, data)
      /\ (call.usage # Null /\ call.usage[1] \in Renderable
            /\ call.leaderboardsPending = 1) =>
           SucceededWith(AfterLeaderboard(State, slot), slot, call, call.usage[1])

\* a refresh has just succeeded with leaderboards and replaced both caches
C23_Witness ==
  /\ Finished("success")
  /\ cachedUsageData # Null
  /\ cachedLeaderboardData # Null
  /\ cachedLeaderboardData[1].days # config.leaderboardDateRange
  /\ ~isRefreshing /\ fastRetryStartTime = Null

\* C24: the handler of a focus-gained event calls refreshStats first (the
\* loading view and the token read when the flag is clear, nothing when it is
\* set), then cancels the installed timer, if any, and installs the 60 s
\* timer, which is then the only one; it leaves fastRetryStartTime and the
\* three caches as they are
C24_FocusGainedFrame ==
  LET r == FocusListener(State, TRUE) IN
  /\ r.fx = (IF isRefreshing THEN <<>> ELSE <<"showLoading", "getCursorTokenFromDB">>)
            \o (IF refreshInterval # Null THEN <<"clearInterval">> ELSE <<>>)
            \o <<"setInterval">>
  /\ isRefreshing => r.calls = calls /\ r.rendered = Null
  /\ ~isRefreshing => r.isRefreshing /\ Cardinality({i \in Slots : r.calls[i] # Null}) = 1
  /\ \E t \in r.timers :
       /\ r.timers = {t}
       /\ t.period = REFRESH_INTERVAL_MS /\ t.due = now + REFRESH_INTERVAL_MS
       /\ r.refreshInterval = Some(t.id)
  /\ r.fastRetryStartTime = fastRetryStartTime
  /\ r.cachedUserInfo = cachedUserInfo
  /\ r.cachedUsageData = cachedUsageData
  /\ r.cachedLeaderboardData = cachedLeaderboardData

\* focus was gained in FastRetry: the 60 s timer runs and the start is kept
C24_Witness ==
  /\ windowFocused
  /\ fastRetryStartTime # Null /\ fastRetryStartTime[1] < now
  /\ \E t \in timers : timers = {t} /\ t.period = REFRESH_INTERVAL_MS
                       /\ t.due = now + REFRESH_INTERVAL_MS
  /\ isRefreshing

\* C25: when one of the three leaderboard requests fails, the refresh ends
\* in that step as a fetch error: showError is its only callback after
\* showLoading, updateStatusBar is not called, the flag is cleared and neither
\* the usage cache nor the leaderboard cache changes, whether or not the usage
\* summary of the cycle has arrived
C25_LeaderboardFailureFailsCycle ==
  [][ \A slot \in Slots, message \in FetchErrorMessages :
        LeaderboardFailsWith(slot, message)
        => /\ Catch(State, slot, message, "fetchError").rendered
                = Some(ErrorView(message))
           /\ Finished("fetchError")'
           /\ lastCycle'[1].callbacks = <<"showLoading", "showError">>
           /\ lastCycle'[1].usage = calls[slot][1].usage
           /\ ~isRefreshing' /\ calls'[slot] = Null
           /\ UNCHANGED <<cachedUsageData, cachedLeaderboardData>> ]_vars

\* a cycle whose usage summary had arrived has failed and cached nothing
C25_Witness ==
  /\ Finished("fetchError")
  /\ lastCycle[1].usage # Null /\ ~UpdateStatusBarThrows(lastCycle[1].usage[1])
  /\ cachedUsageData = Null /\ cachedLeaderboardData = Null
  /\ lastCycle[1].callbacks = <<"showLoading", "showError">>

\* C26: whenever no refresh is in flight and a timer is installed, the
\* installed timer is the 1 s timer if and only if fastRetryStartTime is set
C26_CadenceAgreesWithMode ==
  (~isRefreshing /\ timers # {}) =>
    \A t \in timers :
      (t.period = FAST_RETRY_INTERVAL_MS) = (fastRetryStartTime # Null)

\* focus was lost in FastRetry and a refresh that found no credential has
\* since re-installed the 1 s timer: no refresh is in flight
C26_Witness ==
  /\ ~windowFocused
  /\ ~isRefreshing /\ InFlight = {}
  /\ fastRetryStartTime # Null
  /\ \E t \in timers : timers = {t} /\ t.period = FAST_RETRY_INTERVAL_MS

\* C27: once deactivate() has run no timer is installed and no refresh
\* starts: from then on no interval timer is live and no invocation of
\* refreshStats passes the guard
C27_DeactivateIsFinal ==
  [][ deactivated' => timers' = {} /\ InFlight' \subseteq InFlight ]_vars

\* C28: whenever the busy flag is clear, no HTTP request of an earlier refresh
\* is still pending
C28_IdleMeansNoRequestPending ==
  ~isRefreshing => outstanding = Some(0)

\* C29: the step that ends a refresh without success (no credential, or an
\* exception) writes neither the usage cache nor the leaderboard cache
C29_FailureLeavesCaches ==
  [][ (lastCycle' # Null /\ lastCycle'[1].outcome # "success")
        => UNCHANGED <<cachedUsageData, cachedLeaderboardData>> ]_vars

\* C30: with Cursor never signed in and the window focused, a refresh that
\* finds no credential in Normal mode starts a fast-retry window at the
\* current time, with the 1 s timer; a window ends only when it is at least
\* FAST_RETRY_DURATION_MS old, at the first such refresh, which installs the
\* 60 s timer; and the retry mode is FastRetry infinitely often and Normal
\* infinitely often: a new window follows every forced reversion
C30_FastRetryRecurs ==
  /\ [][ \A slot \in Slots :
           TokenAbsent(slot) =>
             IF fastRetryStartTime = Null
             THEN fastRetryStartTime' = Some(now) /\ OnlyTimer(FAST_RETRY_INTERVAL_MS)
             ELSE IF now - fastRetryStartTime[1] >= FAST_RETRY_DURATION_MS
             THEN fastRetryStartTime' = Null /\ OnlyTimer(REFRESH_INTERVAL_MS)
             ELSE fastRetryStartTime' = fastRetryStartTime ]_vars
  /\ []<>(fastRetryStartTime = Null)
  /\ []<>(fastRetryStartTime # Null)

\* the second window has just been entered, after the reversion of the first
C30_Witness ==
  /\ windows = Some(2)
  /\ Finished("noCredential")
  /\ ~lastCycle[1].startedInFastRetry
  /\ fastRetryStartTime = Some(now)
  /\ \E t \in timers : timers = {t} /\ t.period = FAST_RETRY_INTERVAL_MS

----------------------------------------------------------------------------
(* Properties of the token reader, under DbSpec *)

Range(seq) == {seq[i] : i \in DOMAIN seq}

\* the database of the machine, and what the last read of it came to
Db == database[1]
Extracted == extraction[1]

\* the default path is needed: customDatabasePath is unset or blank
ContextNeeded(db) ==
  db.customPath = Null \/ \A i \in DOMAIN db.customPath[1] : db.customPath[1][i] \in Whitespace

PathResolves(db) == ~ContextNeeded(db) \/ TruthyString(db.userDirPath)

\* a read has been made and it found the file
FileQueried == extraction # Null /\ PathResolves(Db) /\ Db.exists

CliYields(db) == IF db.cli = "ok" /\ TruthyString(db.stored) THEN db.stored ELSE Null

\* C16: for a file the in-memory query is tried on, the sqlite3 command is
\* asked exactly when the in-memory query throws, and the raw token is then
\* what the command yields (a token or nothing) with no error escaping; an
\* in-memory query that finds no row gives nothing without the command being
\* asked; when both fail the result is absent.
C16_CliFallbackOnThrow ==
  (FileQueried /\ Db.size <= LARGE_FILE_THRESHOLD_BYTES)
  => /\ Extracted.raised = Null
     /\ ("CLI" \in Range(Extracted.tried)) = (Db.sqlJs = "throws")
     /\ Db.sqlJs = "throws"
          => Extracted.tried = <<"sqlJs", "CLI">> /\ Extracted.raw = CliYields(Db)
     /\ (Db.sqlJs = "ok" /\ Db.stored = Null)
          => Extracted.tried = <<"sqlJs">> /\ Extracted.raw = Null /\ Extracted.result = Null
     /\ (Db.sqlJs = "throws" /\ Db.cli = "throws")
          => Extracted.raw = Null /\ Extracted.result = Null

\* the in-memory query threw and the sqlite3 command gave the token of a signed-in user
C16_Witness ==
  /\ FileQueried
  /\ Db.sqlJs = "throws"
  /\ Extracted.tried = <<"sqlJs", "CLI">>
  /\ Extracted.raw = Db.stored
  /\ Extracted.result # Null

\* the subject in the payload segment of a stored token (Null: the segment is
\* no JSON object with a subject)
SubjectOf(payload) ==
  CASE payload = <<"eyJzdWIiOiJhfHUifQ">> -> Some(<<"a", "|", "u">>)
    [] payload = <<"eyJzdWIiOiJhfHV8YiJ9">> -> Some(<<"a", "|", "u", "|", "b">>)
    [] payload = <<"eyJzdWIiOiJ8dSJ9">> -> Some(<<"|", "u">>)
    [] payload = <<"eyJzdWIiOiJhfHU", "_", "In0">> -> Some(<<"a", "|", "u", "?">>)
    [] payload = <<"eyJzdWIiOiJhIn0">> -> Some(<<"a">>)
    [] payload = <<"eyJzdWIiOiJhfCJ9">> -> Some(<<"a", "|">>)
    [] payload = <<"eyJzdWIiOiJhfHxiIn0">> -> Some(<<"a", "|", "|", "b">>)
    [] payload = <<"eyJzdWIiOiIifQ">> -> Some(<<>>)
    [] OTHER -> Null

Dots(token) == {i \in DOMAIN token : token[i] = "."}

\* the token has exactly three dot-separated segments
ThreeSegments(token) == Cardinality(Dots(token)) = 2

\* the second segment of a token of three segments
PayloadSegment(token) ==
  LET first == Min(Dots(token))
      second == Min(Dots(token) \ {first})
  IN SubSeq(token, first + 1, second - 1)

\* userId is the second |-separated part of sub
IsSecondPart(sub, userId) ==
  \E i \in DOMAIN sub, j \in 0 .. Len(sub) :
    /\ sub[i] = "|" /\ \A k \in 1 .. i - 1 : sub[k] # "|"
    /\ j >= i
    /\ userId = SubSeq(sub, i + 1, j)
    /\ \A k \in i + 1 .. j : sub[k] # "|"
    /\ j = Len(sub) \/ sub[j + 1] = "|"

Substrings(str) == {SubSeq(str, i, j) : i \in 1 .. Len(str) + 1, j \in 0 .. Len(str)}

\* the non-empty user ids the token's subject gives (none for a malformed token)
UserIds(token) ==
  IF ~ThreeSegments(token) \/ SubjectOf(PayloadSegment(token)) = Null THEN {}
  ELSE LET sub == SubjectOf(PayloadSegment(token))[1]
       IN {u \in Substrings(sub) : u # <<>> /\ IsSecondPart(sub, u)}

\* C17: for a raw token of three segments whose payload decodes to JSON with
\* a subject "<a>|<userId>..." and a non-empty userId, the session credential
\* is userId, then "%3A%3A", then the raw token unmodified.
C17_CredentialFromSubject ==
  (extraction # Null /\ TruthyString(Extracted.raw))
  => \A userId \in UserIds(Extracted.raw[1]) :
       Extracted.result = Some(userId \o <<"%3A%3A">> \o Extracted.raw[1])

\* the credential read from the token whose subject is a|u|b
C17_Witness ==
  /\ extraction # Null
  /\ Extracted.raw = Some(Jwt(<<"eyJzdWIiOiJhfHV8YiJ9">>))
  /\ Extracted.result = Some(<<"u", "%3A%3A">> \o Jwt(<<"eyJzdWIiOiJhfHV8YiJ9">>))

\* C18: for a raw token that has not exactly three segments, or whose payload
\* is no parseable JSON, or has no subject, or whose subject has fewer than two
\* |-separated parts or an empty second part, the result is absent and no
\* error leaves getCursorTokenFromDB.
C18_MalformedTokenIsAbsent ==
  (extraction # Null /\ TruthyString(Extracted.raw) /\ UserIds(Extracted.raw[1]) = {})
  => Extracted.result = Null /\ Extracted.raised = Null

\* a token of four segments, whose second segment holds a good subject, has
\* been read and gave no credential
C18_Witness ==
  /\ extraction # Null
  /\ Extracted.raw = Some(Jwt(<<"eyJzdWIiOiJhfHUifQ">>) \o <<".", "x">>)
  /\ Extracted.result = Null

\* C19 as claimed: when the default path is needed and the context was not
\* initialized, getCursorTokenFromDB rejects with the error, and the refresh
\* neither ends as "Not signed in" nor starts fast retry.
C19_ConfigurationErrorPropagates ==
  (extraction # Null /\ ~PathResolves(Db))
  => /\ Extracted.raised = Some(ContextError)
     /\ Extracted.result = Null
     /\ ~Finished("noCredential")
     /\ fastRetryStartTime = Null

\* the causes of NotSignedIn: no file, no token row, a malformed token, a
\* malformed payload
NotSignedInCause(db) ==
  \/ ~db.exists
  \/ ~TruthyString(db.stored)
  \/ UserIds(db.stored[1]) = {}

\* C20: for each cause of NotSignedIn getCursorTokenFromDB resolves with
\* undefined and rejects with nothing; the refresh shows "Not signed in to
\* Cursor", takes the fast-retry transition, ends, and issues no request in the
\* cycle; for a missing file neither query strategy is tried.
C20_NotSignedInCauses ==
  [][ /\ \A c \in Range(RefreshStats(State).fx) : ~IsRequest(c)
      /\ \A slot \in Slots :
           (TokenRead(slot) /\ NotSignedInCause(Db))
           => LET r == AfterToken(State, slot, Null)
              IN /\ extraction'[1].result = Null
                 /\ extraction'[1].raised = Null
                 /\ r.rendered = Some(ErrorView(NotSignedInMessage))
                 /\ \A c \in Range(r.fx) : ~IsRequest(c)
                 /\ Finished("noCredential")'
                 /\ lastCycle'[1].callbacks = <<"showLoading", "showError">>
                 /\ fastRetryStartTime' =
                      IF TruthyNumber(fastRetryStartTime) THEN fastRetryStartTime
                      ELSE Some(now)
                 /\ OnlyTimer(FAST_RETRY_INTERVAL_MS)
                 /\ ~isRefreshing'
                 /\ ~Db.exists => extraction'[1].tried = <<>> ]_vars

\* a refresh has ended as not signed in on a file whose token row holds a
\* payload without subject, after the in-memory query found the row
C20_Witness ==
  /\ Finished("noCredential")
  /\ FileQueried
  /\ Db.stored = Some(Jwt(<<"e30">>))
  /\ Extracted.tried = <<"sqlJs">>
  /\ Extracted.raw = Db.stored

----------------------------------------------------------------------------
(* Properties of the functions of services/api.ts, under ApiSpec *)

Called(function) == arguments[1][1] = function /\ returned # Null

\* the section of the response that the sort dimension `dimension` ranks by
Relevant(dimension) ==
  LET outcomes == arguments[1][2] IN
  CASE dimension = "agentLines" -> outcomes[1].value.composer_leaderboard
    [] dimension = "acceptedDiffs" -> outcomes[2].value.composer_leaderboard
    [] dimension = "tabCompletions" -> outcomes[3].value.tab_leaderboard

\* the entries of a section with the given e-mail address
EntriesOf(section, email) ==
  IF section.data = Null THEN {}
  ELSE {section.data[1][i] : i \in {j \in 1..Len(section.data[1]) :
                                      section.data[1][j].email = email}}

Dimensions == {"agentLines", "acceptedDiffs", "tabCompletions"}

AllResolved == \A i \in 1..3 : arguments[1][2][i].kind = "return"

\* C21: when the three requests of fetchAllLeaderboards resolve it returns
\* without an error, and for each sort dimension: if the relevant section is
\* absent from the response, userEntry is null and totalUsers is 0; if it is
\* present, totalUsers is its total_users and userEntry is an entry of it with
\* the caller's e-mail address, null if it has none
C21_LeaderboardSections ==
  (Called("fetchAllLeaderboards") /\ AllResolved) =>
    /\ returned[1].kind = "return"
    /\ \A dimension \in Dimensions :
         LET section == Relevant(dimension)
             result == returned[1].value[dimension]
         IN IF section = Null
            THEN result.userEntry = Null /\ result.totalUsers = 0
            ELSE /\ result.totalUsers = section[1].total_users
                 /\ LET mine == EntriesOf(section[1], arguments[1][3])
                    IN IF mine = {} THEN result.userEntry = Null
                       ELSE result.userEntry # Null /\ result.userEntry[1] \in mine

\* the tab section is absent and the composer section of the same response has
\* an entry of the caller, while the composer responses lack their section
C21_Witness ==
  /\ Called("fetchAllLeaderboards") /\ AllResolved
  /\ Relevant("tabCompletions") = Null
  /\ arguments[1][2][3].value.composer_leaderboard # Null
  /\ EntriesOf(arguments[1][2][3].value.composer_leaderboard[1], arguments[1][3]) # {}
  /\ Relevant("agentLines") = Null
  /\ Relevant("acceptedDiffs") # Null
  /\ returned[1].value.tabCompletions.userEntry = Null
  /\ returned[1].value.acceptedDiffs.userEntry # Null

\* C22: calculateIndividualContribution(individualUsed, pooledUsed) is exactly
\* 0 when pooledUsed is 0, whatever individualUsed is, and otherwise the
\* number individualUsed / pooledUsed * 100; (0, 100) gives 0 and (50, 100)
\* gives 50
C22_Contribution ==
  Called("calculateIndividualContribution") =>
    LET individualUsed == arguments[1][2]
        pooledUsed == arguments[1][3]
        result == returned[1]
    IN /\ result.kind = "finite" /\ result.d > 0
       /\ pooledUsed = 0 => result.n = 0 /\ result.d = 1
       /\ pooledUsed # 0 => result.n * pooledUsed = individualUsed * 100 * result.d
       /\ (individualUsed = 0 /\ pooledUsed = 100) => result.n = 0
       /\ (individualUsed = 50 /\ pooledUsed = 100) => result.n = 50 /\ result.d = 1

\* a contribution to an empty pool was asked for, and is 0
C22_Witness ==
  /\ Called("calculateIndividualContribution")
  /\ arguments[1][2] = 400 /\ arguments[1][3] = 0
  /\ returned[1] = [kind |-> "finite", n |-> 0, d |-> 1]

====
